---- MODULE Spec2Model ----
(***************************************************************************)
(* Adaptive rate-control and failure-recovery core of the GodOfPrompt      *)
(* scraper: SystemMonitor / AdaptiveController (monitoring_system.py),     *)
(* AdaptiveDelayManager and CircuitBreaker (anti_blocking_strategy.py),    *)
(* CacheManager (performance_optimizer.py).                                *)
(*                                                                         *)
(* Conventions.                                                            *)
(*  - Optional[T] is a set with at most one element: None == {} and        *)
(*    Some(x) == {x}.                                                      *)
(*  - Text is a tuple of one-character strings, so that str.lower() and    *)
(*    the `in` substring test are computed, not assumed.                   *)
(*  - Floats are fixed point: delays in milliseconds, rates in percent,    *)
(*    the delay multiplier in 1/32 (1.5^k is exact there up to the cap).   *)
(*  - The objects share no state; each specification below drives one of   *)
(*    them (or two, for claims that speak of two) and leaves the others    *)
(*    in their constructed state.                                          *)
(***************************************************************************)
EXTENDS Integers, Sequences, FiniteSets, TLC

VARIABLES
    \* SystemMonitor.config (AlertConfig) and SystemMonitor.metrics
    alert_config,
    total_requests,
    successful_requests,
    failed_requests,
    consecutive_errors,
    last_error_time,
    response_times,
    alerts_history,
    alert_callbacks,
    is_monitoring,
    status,
    memory_usage,
    cpu_usage,
    \* the live threads running SystemMonitor._monitor_loop
    monitor_loops,
    \* AdaptiveController
    current_delay_multiplier,
    \* AdaptiveDelayManager (config is its ScrapingConfig)
    config,
    success_count,
    error_count,
    dm_consecutive_errors,
    current_delay,
    \* CircuitBreaker
    failure_threshold,
    recovery_timeout,
    failure_count,
    last_failure_time,
    state,
    \* CacheManager: cache_data is the dict in insertion order, hash_seed the
    \* per-process seed of the builtin hash()
    cache_data,
    hash_seed,
    \* the cache file on disk: absent, complete or cut short (partial), and
    \* the entries written by the last save_cache that completed
    cache_file,
    \* time.time()
    now,
    \* history: the last call made and what it observed; the number of times
    \* the operation wrapped by the breaker was invoked; whether every call of
    \* the breaker so far invoked it and failed; the failures recorded by the
    \* monitor since its last recorded success; the types of the alerts the
    \* monitor has emitted so far
    last,
    invocations,
    all_failed,
    failure_run,
    alerted,
    \* the worker threads inside a method of the CacheManager: for each its
    \* position, its arguments and the key it has picked for eviction, and
    \* the number of calls begun and of calls that raised
    cache_workers,
    \* the threads inside CircuitBreaker.call: for each its position, the
    \* breaker state in which it invoked the wrapped operation and the value
    \* it has loaded, and the number of calls begun
    cb_workers,
    \* the workers of extract_multiple_prompts inside record_request: for each
    \* its position, its argument and the value it has loaded, and the number
    \* of calls that have returned
    mon_workers

mon_vars == <<alert_config, total_requests, successful_requests, failed_requests,
              consecutive_errors, last_error_time, response_times,
              alerts_history, alert_callbacks, is_monitoring, status,
              memory_usage, cpu_usage, monitor_loops,
              current_delay_multiplier, failure_run, alerted, mon_workers>>
dm_vars == <<config, success_count, error_count, dm_consecutive_errors,
             current_delay>>
cb_vars == <<failure_threshold, recovery_timeout, failure_count,
             last_failure_time, state, invocations, all_failed, cb_workers>>
cache_vars == <<cache_data, hash_seed, cache_file, cache_workers>>
vars == <<mon_vars, dm_vars, cb_vars, cache_vars, now, last>>

None == {}
Some(x) == {x}
The(o) == CHOOSE x \in o : TRUE

RECURSIVE Sum(_)
Sum(s) == IF s = <<>> THEN 0 ELSE Head(s) + Sum(Tail(s))

Min2(a, b) == IF a <= b THEN a ELSE b
Max2(a, b) == IF a >= b THEN a ELSE b

\* s[-k:] of a Python list
LastN(s, k) == IF Len(s) <= k THEN s ELSE SubSeq(s, Len(s) - k + 1, Len(s))

(***************************************************************************)
(* Text                                                                    *)
(***************************************************************************)
UpperCase == <<"A","B","C","D","E","F","G","H","I","J","K","L","M",
               "N","O","P","Q","R","S","T","U","V","W","X","Y","Z">>
LowerCase == <<"a","b","c","d","e","f","g","h","i","j","k","l","m",
               "n","o","p","q","r","s","t","u","v","w","x","y","z">>

lower_char(c) ==
    IF \E i \in DOMAIN UpperCase : UpperCase[i] = c
    THEN LowerCase[CHOOSE i \in DOMAIN UpperCase : UpperCase[i] = c]
    ELSE c

\* str.lower()
lower(s) == [i \in 1..Len(s) |-> lower_char(s[i])]

\* needle in hay
Contains(hay, needle) ==
    \E i \in 0..(Len(hay) - Len(needle)) :
        SubSeq(hay, i + 1, i + Len(needle)) = needle

(***************************************************************************)
(* SystemMonitor and AdaptiveController (monitoring_system.py)             *)
(***************************************************************************)
HEALTHY == "healthy"
WARNING == "warning"
CRITICAL == "critical"
BLOCKED == "blocked"

\* AlertConfig.block_keywords
DefaultBlockKeywords ==
    << <<"b","l","o","c","k","e","d">>,
       <<"c","a","p","t","c","h","a">>,
       <<"r","a","t","e"," ","l","i","m","i","t">>,
       <<"f","o","r","b","i","d","d","e","n">>,
       <<"a","c","c","e","s","s"," ","d","e","n","i","e","d">>,
       <<"t","o","o"," ","m","a","n","y"," ","r","e","q","u","e","s","t","s">>,
       <<"b","o","t"," ","d","e","t","e","c","t","i","o","n">> >>

\* AlertConfig() with its defaults: rates in percent, seconds, MB, percent
DefaultAlertConfig ==
    [max_error_rate |-> 30, max_response_time |-> 30,
     max_memory_usage |-> 1024, max_cpu_usage |-> 85,
     consecutive_errors_threshold |-> 5,
     block_keywords |-> DefaultBlockKeywords]

\* the AlertConfig built by create_monitoring_system
SystemAlertConfig ==
    [DefaultAlertConfig EXCEPT !.max_error_rate = 25, !.max_response_time = 25]

\* a stricter configuration, so that the threshold is not always 5
StrictAlertConfig ==
    [DefaultAlertConfig EXCEPT !.consecutive_errors_threshold = 3]

AlertConfigs == {DefaultAlertConfig, SystemAlertConfig, StrictAlertConfig}

\* a configuration whose first keyword is written with a capital letter
CapitalisedAlertConfig ==
    [DefaultAlertConfig EXCEPT !.block_keywords =
        << <<"F","o","r","b","i","d","d","e","n">>,
           <<"r","a","t","e"," ","l","i","m","i","t">> >>]

KeywordAlertConfigs == {DefaultAlertConfig, CapitalisedAlertConfig}

\* AdaptiveController.__init__: 1.0 and 8.0 in 1/32
initial_delay_multiplier == 32
max_delay_multiplier == 256

\* the lists are cut to their last ...Keep entries once longer than ...Window
\* (100 and 50 in the source, scaled down)
ResponseWindow == 2
ResponseKeep == 1
AlertsWindow == 2
AlertsKeep == 1

\* requests recorded in one run of the monitor: with every kind of input, and
\* in a long run of plain outcomes
MaxRequests == 7
RunRequests == 25

\* inputs of record_request
TxtTimeout == <<"t","i","m","e","o","u","t">>
TxtRateLimit == <<"4","2","9",":"," ","R","a","t","e"," ","L","I","M","I","T">>
TxtCaptchaBlocked == <<"C","a","p","t","c","h","a",";"," ","b","l","o","c","k","e","d">>
TxtForbidden == <<"4","0","3"," ","F","o","r","b","i","d","d","e","n">>
ErrorTexts == {<<>>, TxtTimeout, TxtRateLimit, TxtCaptchaBlocked}
KeywordErrorTexts == {TxtTimeout, TxtRateLimit, TxtCaptchaBlocked, TxtForbidden}
ResponseTimeInputs == {None, Some(0), Some(10), Some(50)}
PlainResponseTimes == {None, Some(10), Some(50)}
ErrorMessageInputs == {None} \cup {Some(m) : m \in ErrorTexts}
\* readings of psutil: process RSS in MB, CPU load in percent
MemoryReadings == {512, 2048}
CpuReadings == {20, 95}

\* what psutil reads in one place: <<RSS in MB, CPU load in percent>>
Readings == MemoryReadings \X CpuReadings

\* mutant: a change of status takes the multiplier back to 1.0
_handle_alert_relaxing(multiplier, alert) ==
    CASE alert.type = "ALTA_TAXA_ERRO" ->
            Min2((multiplier * 3) \div 2, max_delay_multiplier)
      [] alert.type = "BLOQUEIO_DETECTADO" -> max_delay_multiplier
      [] alert.type = "MUDANCA_STATUS" -> initial_delay_multiplier
      [] OTHER -> multiplier

\* mutant: the increase of the multiplier not capped
_handle_alert_uncapped(multiplier, alert) ==
    CASE alert.type = "ALTA_TAXA_ERRO" -> (multiplier * 3) \div 2
      [] alert.type = "BLOQUEIO_DETECTADO" -> max_delay_multiplier
      [] OTHER -> multiplier

\* AdaptiveController._handle_alert: the multiplier after the alert
_handle_alert(multiplier, alert) ==
    CASE alert.type = "ALTA_TAXA_ERRO" ->
            Min2((multiplier * 3) \div 2, max_delay_multiplier)
      [] alert.type = "BLOQUEIO_DETECTADO" -> max_delay_multiplier
      [] OTHER -> multiplier

\* the callbacks a monitor is given: the controller's _handle_alert, the
\* log_alert of create_monitoring_system, and one that raises when called
Callbacks == {"_handle_alert", "log_alert", "failing_callback"}
raises(callback) == callback = "failing_callback"

\* one registered callback applied to the alert: what it leaves in the
\* multiplier (a callback that raises leaves it alone)
run_callback(callback, multiplier, alert) ==
    IF callback = "_handle_alert" THEN _handle_alert(multiplier, alert)
    ELSE multiplier

\* one pass of the for loop of _trigger_alert: the callback acts on the
\* multiplier and the call is logged
call_callback(callback, mc, alert) ==
    [mc EXCEPT !.multiplier = run_callback(callback, @, alert),
               !.invoked = Append(@, [callback |-> callback, alert |-> alert])]

\* mutant: the loop without its try/except, left at the first callback that
\* raises
RECURSIVE notify_callbacks_unguarded(_, _, _)
notify_callbacks_unguarded(callbacks, mc, alert) ==
    IF callbacks = <<>> THEN mc
    ELSE IF raises(Head(callbacks))
         THEN call_callback(Head(callbacks), mc, alert)
         ELSE notify_callbacks_unguarded(Tail(callbacks),
                  call_callback(Head(callbacks), mc, alert), alert)

\* the for loop of _trigger_alert over alert_callbacks, in list order; what a
\* callback raises is caught and logged, and the loop goes on
RECURSIVE notify_callbacks(_, _, _)
notify_callbacks(callbacks, mc, alert) ==
    IF callbacks = <<>> THEN mc
    ELSE notify_callbacks(Tail(callbacks),
                          call_callback(Head(callbacks), mc, alert), alert)

\* a list cut to its last `keep` entries once longer than `window`
keep_last(s, window, keep) == IF Len(s) > window THEN LastN(s, keep) ELSE s

\* SystemMonitor._trigger_alert on mc: alerts_history, the controller's
\* multiplier, and the log of the alerts emitted and the callbacks invoked by
\* the running operation; the alert's timestamp and metrics snapshot are
\* write-only and left out
_trigger_alert(mc, alert_type, details) ==
    LET alert == [type |-> alert_type, details |-> details]
    IN notify_callbacks(alert_callbacks,
           [mc EXCEPT !.history = keep_last(Append(@, alert),
                                            AlertsWindow, AlertsKeep),
                      !.emitted = Append(@, alert)],
           alert)

\* the loop of _check_for_blocking: the index of the first keyword of kws
\* found in error_lower, 0 when none is
first_keyword(kws, error_lower) ==
    LET hits == {i \in DOMAIN kws : Contains(error_lower, kws[i])}
    IN IF hits = {} THEN 0 ELSE CHOOSE i \in hits : \A j \in hits : i <= j

\* first_keyword(c.block_keywords, lower(m)) for the configurations and error
\* texts of the model, tabulated once
keyword_table ==
    [c \in AlertConfigs \cup KeywordAlertConfigs |->
        [m \in ErrorTexts \cup KeywordErrorTexts |->
            first_keyword(c.block_keywords, lower(m))]]

\* SystemMonitor._check_for_blocking: the first configured keyword found in
\* the lowered message raises one alert
_check_for_blocking(mc, error_message, errors) ==
    LET first == keyword_table[alert_config][error_message]
    IN IF first = 0 THEN mc
       ELSE _trigger_alert(mc, "BLOQUEIO_DETECTADO",
                [keyword |-> alert_config.block_keywords[first],
                 error_message |-> error_message,
                 consecutive_errors |-> errors])

\* the types of the alerts in a log of emitted alerts
alert_types(emitted) == {emitted[i].type : i \in DOMAIN emitted}

\* Python truthiness of an Optional number / Optional text
truthy_number(o) == o # None /\ The(o) # 0
truthy_text(o) == o # None /\ The(o) # <<>>

\* mutant: a failure that is not counted
record_failure_uncounted ==
    /\ consecutive_errors' = consecutive_errors + 1
    /\ last_error_time' = Some(now)
    /\ UNCHANGED <<successful_requests, failed_requests>>

\* the failure branch of record_request
record_failure_counters ==
    /\ failed_requests' = failed_requests + 1
    /\ consecutive_errors' = consecutive_errors + 1
    /\ last_error_time' = Some(now)
    /\ UNCHANGED successful_requests

\* mutant: a success that leaves the run of errors standing
record_success_no_reset ==
    /\ successful_requests' = successful_requests + 1
    /\ UNCHANGED <<consecutive_errors, failed_requests, last_error_time>>

\* the success branch of record_request
record_success_counters ==
    /\ successful_requests' = successful_requests + 1
    /\ consecutive_errors' = 0
    /\ UNCHANGED <<failed_requests, last_error_time>>

\* SystemMonitor.record_request
record_request(success, response_time, error_message) ==
    LET mc0 == [history |-> alerts_history,
                multiplier |-> current_delay_multiplier, emitted |-> <<>>,
                invoked |-> <<>>]
        mc1 == IF ~success /\ truthy_text(error_message)
               THEN _check_for_blocking(mc0, The(error_message),
                                        consecutive_errors + 1)
               ELSE mc0
        times == Append(response_times, The(response_time))
    IN /\ total_requests' = total_requests + 1
       /\ IF success
          THEN /\ record_success_counters
               /\ response_times' =
                    IF truthy_number(response_time)
                    THEN IF Len(times) > ResponseWindow
                         THEN LastN(times, ResponseKeep) ELSE times
                    ELSE response_times
               /\ failure_run' = 0
          ELSE /\ record_failure_counters
               /\ failure_run' = failure_run + 1
               /\ UNCHANGED response_times
       /\ alerts_history' = mc1.history
       /\ current_delay_multiplier' = mc1.multiplier
       /\ last' = [op |-> "record_request", success |-> success,
                   failure_text |-> IF success THEN None ELSE error_message,
                   pre_errors |-> consecutive_errors,
                   pre_failed |-> failed_requests,
                   pre_multiplier |-> current_delay_multiplier,
                   emitted |-> mc1.emitted, invoked |-> mc1.invoked]
       /\ alerted' = alerted \cup alert_types(mc1.emitted)
       /\ UNCHANGED <<mon_workers, alert_config, alert_callbacks, is_monitoring, status,
                      memory_usage, cpu_usage, monitor_loops>>

\* mutant: the error-rate rules decided before the run of errors
get_health_status_rate_first(rss_mb, cpu_percent) ==
    IF /\ total_requests > 10
       /\ failed_requests * 100 > alert_config.max_error_rate * total_requests
    THEN CRITICAL
    ELSE IF total_requests > 10 /\ failed_requests * 10 > total_requests
    THEN WARNING
    ELSE IF consecutive_errors >= alert_config.consecutive_errors_threshold
    THEN BLOCKED
    ELSE IF /\ response_times # <<>>
            /\ Sum(response_times)
                 > alert_config.max_response_time * Len(response_times)
    THEN WARNING
    ELSE IF \/ rss_mb > alert_config.max_memory_usage
            \/ cpu_percent > alert_config.max_cpu_usage
    THEN WARNING
    ELSE HEALTHY

\* mutant: CRITICAL only for an error rate above twice max_error_rate
get_health_status_lenient(rss_mb, cpu_percent) ==
    IF consecutive_errors >= alert_config.consecutive_errors_threshold
    THEN BLOCKED
    ELSE IF /\ total_requests > 10
            /\ failed_requests * 100
                 > 2 * alert_config.max_error_rate * total_requests
    THEN CRITICAL
    ELSE IF total_requests > 10 /\ failed_requests * 10 > total_requests
    THEN WARNING
    ELSE IF /\ response_times # <<>>
            /\ Sum(response_times)
                 > alert_config.max_response_time * Len(response_times)
    THEN WARNING
    ELSE IF \/ rss_mb > alert_config.max_memory_usage
            \/ cpu_percent > alert_config.max_cpu_usage
    THEN WARNING
    ELSE HEALTHY

\* mutant: the error-rate rules applied only past 20 requests
get_health_status_late(rss_mb, cpu_percent) ==
    IF consecutive_errors >= alert_config.consecutive_errors_threshold
    THEN BLOCKED
    ELSE IF /\ total_requests > 20
            /\ failed_requests * 100 > alert_config.max_error_rate * total_requests
    THEN CRITICAL
    ELSE IF total_requests > 20 /\ failed_requests * 10 > total_requests
    THEN WARNING
    ELSE IF /\ response_times # <<>>
            /\ Sum(response_times)
                 > alert_config.max_response_time * Len(response_times)
    THEN WARNING
    ELSE IF \/ rss_mb > alert_config.max_memory_usage
            \/ cpu_percent > alert_config.max_cpu_usage
    THEN WARNING
    ELSE HEALTHY

\* SystemMonitor.get_health_status, given what psutil reads during the call
get_health_status(rss_mb, cpu_percent) ==
    IF consecutive_errors >= alert_config.consecutive_errors_threshold
    THEN BLOCKED
    ELSE IF /\ total_requests > 10
            /\ failed_requests * 100 > alert_config.max_error_rate * total_requests
    THEN CRITICAL
    ELSE IF total_requests > 10 /\ failed_requests * 10 > total_requests
    THEN WARNING
    ELSE IF /\ response_times # <<>>
            /\ Sum(response_times)
                 > alert_config.max_response_time * Len(response_times)
    THEN WARNING
    ELSE IF \/ rss_mb > alert_config.max_memory_usage
            \/ cpu_percent > alert_config.max_cpu_usage
    THEN WARNING
    ELSE HEALTHY

\* the threads of the ThreadPoolExecutor of extract_multiple_prompts
Workers == {1, 2}

\* the record_request calls the workers make in a run
MaxWorkerCalls == 3

\* a worker outside record_request
IdleWorker == [pc |-> "idle", success |-> TRUE, response_time |-> None,
               error_message |-> None, loaded |-> 0]

\* SystemMonitor.__init__ followed by AdaptiveController.__init__ and the
\* registration of log_alert, as create_monitoring_system does
MonitorInit(configs) ==
    /\ alert_config \in configs
    /\ total_requests = 0
    /\ successful_requests = 0
    /\ failed_requests = 0
    /\ consecutive_errors = 0
    /\ last_error_time = None
    /\ response_times = <<>>
    /\ alerts_history = <<>>
    /\ alert_callbacks = <<"_handle_alert", "log_alert">>
    /\ is_monitoring = FALSE
    /\ status = HEALTHY
    /\ memory_usage = <<>>
    /\ cpu_usage = <<>>
    /\ monitor_loops = 0
    /\ current_delay_multiplier = initial_delay_multiplier
    /\ failure_run = 0
    /\ alerted = {}
    /\ mon_workers = [workers |-> [w \in Workers |-> IdleWorker],
                      returned |-> 0]

RecordRequestWith(cap, times, messages) ==
    /\ total_requests < cap
    /\ \E success \in BOOLEAN, response_time \in times,
          error_message \in messages :
          record_request(success, response_time, error_message)
    /\ UNCHANGED <<dm_vars, cb_vars, cache_vars, now>>

\* memory_usage and cpu_usage are cut to their last MetricsKeep samples once
\* longer than MetricsWindow (100 and 50 in the source, scaled down)
MetricsWindow == 2
MetricsKeep == 1

\* _check_alert_conditions averages the last RecentTimes response times
RecentTimes == 10

\* live monitor threads, and registered callbacks, in one run
MaxLoops == 2
MaxCallbacks == 4

\* one list of _collect_system_metrics after a sample is appended
collect(samples, reading) ==
    keep_last(Append(samples, reading), MetricsWindow, MetricsKeep)

\* mutant: the alert carries the two statuses the wrong way round
_trigger_status_change_alert_swapped(mc, old_status, new_status) ==
    _trigger_alert(mc, "MUDANCA_STATUS",
        [old_status |-> new_status, new_status |-> old_status])

\* SystemMonitor._trigger_status_change_alert (the time of day in the details
\* is write-only and left out)
_trigger_status_change_alert(mc, old_status, new_status) ==
    _trigger_alert(mc, "MUDANCA_STATUS",
        [old_status |-> old_status, new_status |-> new_status])

\* mutant: the high-failure-rate alert raised only above a rate of 0.75
_check_alert_conditions_lenient(mc, memory) ==
    LET recent_times == LastN(response_times, RecentTimes)
        mc1 == IF /\ total_requests > 20
                  /\ failed_requests * 4 > total_requests * 3
               THEN _trigger_alert(mc, "ALTA_TAXA_ERRO",
                        [error_rate |-> <<failed_requests, total_requests>>,
                         total_requests |-> total_requests,
                         failed_requests |-> failed_requests])
               ELSE mc
        mc2 == IF /\ response_times # <<>>
                  /\ Sum(recent_times)
                       > alert_config.max_response_time * Len(recent_times)
               THEN _trigger_alert(mc1, "RESPOSTA_LENTA",
                        [avg_response_time |->
                            <<Sum(recent_times), Len(recent_times)>>,
                         threshold |-> alert_config.max_response_time])
               ELSE mc1
    IN IF /\ memory # <<>>
          /\ memory[Len(memory)] > alert_config.max_memory_usage
       THEN _trigger_alert(mc2, "MEMORIA_ALTA",
                [current_memory_mb |-> memory[Len(memory)],
                 threshold_mb |-> alert_config.max_memory_usage])
       ELSE mc2

\* SystemMonitor._check_alert_conditions, memory being metrics['memory_usage']
\* as _collect_system_metrics left it; a quotient is the pair of its terms
_check_alert_conditions(mc, memory) ==
    LET recent_times == LastN(response_times, RecentTimes)
        mc1 == IF /\ total_requests > 20
                  /\ failed_requests * 2 > total_requests
               THEN _trigger_alert(mc, "ALTA_TAXA_ERRO",
                        [error_rate |-> <<failed_requests, total_requests>>,
                         total_requests |-> total_requests,
                         failed_requests |-> failed_requests])
               ELSE mc
        mc2 == IF /\ response_times # <<>>
                  /\ Sum(recent_times)
                       > alert_config.max_response_time * Len(recent_times)
               THEN _trigger_alert(mc1, "RESPOSTA_LENTA",
                        [avg_response_time |->
                            <<Sum(recent_times), Len(recent_times)>>,
                         threshold |-> alert_config.max_response_time])
               ELSE mc1
    IN IF /\ memory # <<>>
          /\ memory[Len(memory)] > alert_config.max_memory_usage
       THEN _trigger_alert(mc2, "MEMORIA_ALTA",
                [current_memory_mb |-> memory[Len(memory)],
                 threshold_mb |-> alert_config.max_memory_usage])
       ELSE mc2

\* one iteration of SystemMonitor._monitor_loop: health is what psutil reads
\* in get_health_status, sample what it reads in _collect_system_metrics;
\* stale tells that the thread iterating is not self.monitor_thread but one
\* started earlier, which a stop_monitoring has given up joining
_monitor_loop(health, sample, stale) ==
    LET new_status == get_health_status(health[1], health[2])
        memory == collect(memory_usage, sample[1])
        mc0 == [history |-> alerts_history,
                multiplier |-> current_delay_multiplier, emitted |-> <<>>,
                invoked |-> <<>>]
        mc1 == IF status # new_status
               THEN _trigger_status_change_alert(mc0, status, new_status)
               ELSE mc0
        mc2 == _check_alert_conditions(mc1, memory)
    IN /\ status' = new_status
       /\ memory_usage' = memory
       /\ cpu_usage' = collect(cpu_usage, sample[2])
       /\ alerts_history' = mc2.history
       /\ current_delay_multiplier' = mc2.multiplier
       /\ last' = [op |-> "tick", old_status |-> status,
                   pre_multiplier |-> current_delay_multiplier,
                   emitted |-> mc2.emitted, invoked |-> mc2.invoked,
                   stale |-> stale]
       /\ alerted' = alerted \cup alert_types(mc2.emitted)
       /\ UNCHANGED <<mon_workers, alert_config, total_requests, successful_requests,
                      failed_requests, consecutive_errors, last_error_time,
                      response_times, alert_callbacks, is_monitoring,
                      monitor_loops, failure_run>>

\* SystemMonitor.add_alert_callback
add_alert_callback(callback) ==
    /\ alert_callbacks' = Append(alert_callbacks, callback)
    /\ UNCHANGED <<mon_workers, alert_config, total_requests, successful_requests,
                   failed_requests, consecutive_errors, last_error_time,
                   response_times, alerts_history, is_monitoring, status,
                   memory_usage, cpu_usage, monitor_loops,
                   current_delay_multiplier,
                   failure_run, alerted>>

\* SystemMonitor.start_monitoring: a second call while monitoring returns at
\* once, otherwise a thread is started on _monitor_loop
start_monitoring ==
    /\ is_monitoring' = TRUE
    /\ monitor_loops' = IF is_monitoring THEN monitor_loops
                        ELSE monitor_loops + 1
    /\ UNCHANGED <<mon_workers, alert_config, total_requests, successful_requests,
                   failed_requests, consecutive_errors, last_error_time,
                   response_times, alerts_history, alert_callbacks, status,
                   memory_usage, cpu_usage, current_delay_multiplier,
                   failure_run, alerted>>

\* SystemMonitor.stop_monitoring: the flag is cleared and the thread joined
\* for 2 s; joined tells whether a loop saw the flag and ended in that time
stop_monitoring(joined) ==
    /\ is_monitoring' = FALSE
    /\ monitor_loops' = IF joined /\ monitor_loops > 0
                        THEN monitor_loops - 1 ELSE monitor_loops
    /\ UNCHANGED <<mon_workers, alert_config, total_requests, successful_requests,
                   failed_requests, consecutive_errors, last_error_time,
                   response_times, alerts_history, alert_callbacks, status,
                   memory_usage, cpu_usage, current_delay_multiplier,
                   failure_run, alerted>>

\* the while test of _monitor_loop found false: the thread ends
monitor_loop_exit ==
    /\ monitor_loops' = monitor_loops - 1
    /\ UNCHANGED <<mon_workers, alert_config, total_requests, successful_requests,
                   failed_requests, consecutive_errors, last_error_time,
                   response_times, alerts_history, alert_callbacks,
                   is_monitoring, status, memory_usage, cpu_usage,
                   current_delay_multiplier,
                   failure_run, alerted>>

MonitorTickWith(readings) ==
    /\ is_monitoring /\ monitor_loops > 0
    /\ \E health \in readings, sample \in readings,
          loop \in 1..monitor_loops :
          _monitor_loop(health, sample, loop < monitor_loops)
    /\ UNCHANGED <<dm_vars, cb_vars, cache_vars, now>>

AddAlertCallback ==
    /\ Len(alert_callbacks) < MaxCallbacks
    /\ \E callback \in {"log_alert", "failing_callback"} :
          add_alert_callback(callback)
    /\ last' = [op |-> "add_alert_callback"]
    /\ UNCHANGED <<dm_vars, cb_vars, cache_vars, now>>

StartMonitoring ==
    /\ is_monitoring \/ monitor_loops < MaxLoops
    /\ start_monitoring
    /\ last' = [op |-> "start_monitoring", was_monitoring |-> is_monitoring]
    /\ UNCHANGED <<dm_vars, cb_vars, cache_vars, now>>

StopMonitoring ==
    /\ \E joined \in BOOLEAN : stop_monitoring(joined)
    /\ last' = [op |-> "stop_monitoring"]
    /\ UNCHANGED <<dm_vars, cb_vars, cache_vars, now>>

MonitorLoopExit ==
    /\ ~is_monitoring /\ monitor_loops > 0
    /\ monitor_loop_exit
    /\ UNCHANGED <<dm_vars, cb_vars, cache_vars, now, last>>

\* a worker of extract_multiple_prompts reaches the record_request call that
\* ends extract_single_prompt
worker_call(w, success, response_time, error_message) ==
    /\ mon_workers' = [mon_workers EXCEPT !.workers[w] =
            [pc |-> "load_total", success |-> success,
             response_time |-> response_time,
             error_message |-> error_message, loaded |-> 0]]
    /\ UNCHANGED <<alert_config, total_requests, successful_requests,
                   failed_requests, consecutive_errors, last_error_time,
                   response_times, alerts_history, alert_callbacks,
                   is_monitoring, status, memory_usage, cpu_usage,
                   monitor_loops, current_delay_multiplier, failure_run,
                   alerted>>

\* the worker moves to position pc, or returns when pc is "idle"
worker_at(w, pc, loaded) ==
    [mon_workers EXCEPT !.workers[w] =
                            IF pc = "idle" THEN IdleWorker
                            ELSE [@ EXCEPT !.pc = pc, !.loaded = loaded],
                        !.returned = IF pc = "idle" THEN @ + 1 ELSE @]

\* one step of a worker inside SystemMonitor.record_request, which takes no
\* lock: x += 1 on a metric is a load of the metric followed by a store of
\* the sum, and another thread may run between the two
record_request_step(w) ==
    LET me == mon_workers.workers[w]
        mc0 == [history |-> alerts_history,
                multiplier |-> current_delay_multiplier, emitted |-> <<>>,
                invoked |-> <<>>]
        mc1 == IF me.pc = "check_blocking"
               THEN _check_for_blocking(mc0, The(me.error_message),
                                        consecutive_errors)
               ELSE mc0
        pc == CASE me.pc = "load_total" -> "store_total"
                [] me.pc = "store_total" ->
                       IF me.success THEN "load_successful" ELSE "load_failed"
                [] me.pc = "load_successful" -> "store_successful"
                [] me.pc = "store_successful" -> "reset_errors"
                [] me.pc = "reset_errors" ->
                       IF truthy_number(me.response_time)
                       THEN "append_time" ELSE "idle"
                [] me.pc = "append_time" -> "test_times"
                [] me.pc = "test_times" ->
                       IF Len(response_times) > ResponseWindow
                       THEN "store_times" ELSE "idle"
                [] me.pc = "store_times" -> "idle"
                [] me.pc = "load_failed" -> "store_failed"
                [] me.pc = "store_failed" -> "load_errors"
                [] me.pc = "load_errors" -> "store_errors"
                [] me.pc = "store_errors" -> "store_error_time"
                [] me.pc = "store_error_time" ->
                       IF truthy_text(me.error_message)
                       THEN "check_blocking" ELSE "idle"
                [] me.pc = "check_blocking" -> "idle"
        loaded == CASE me.pc = "load_total" -> total_requests
                    [] me.pc = "load_successful" -> successful_requests
                    [] me.pc = "load_failed" -> failed_requests
                    [] me.pc = "load_errors" -> consecutive_errors
                    [] me.pc = "test_times" ->
                           LastN(response_times, ResponseKeep)
                    [] OTHER -> me.loaded
    IN /\ me.pc # "idle"
       /\ mon_workers' = worker_at(w, pc, loaded)
       /\ total_requests' = IF me.pc = "store_total" THEN me.loaded + 1
                             ELSE total_requests
       /\ successful_requests' = IF me.pc = "store_successful"
                                  THEN me.loaded + 1 ELSE successful_requests
       /\ failed_requests' = IF me.pc = "store_failed" THEN me.loaded + 1
                              ELSE failed_requests
       /\ consecutive_errors' = CASE me.pc = "reset_errors" -> 0
                                   [] me.pc = "store_errors" -> me.loaded + 1
                                   [] OTHER -> consecutive_errors
       /\ failure_run' = CASE me.pc = "reset_errors" -> 0
                            [] me.pc = "store_errors" -> failure_run + 1
                            [] OTHER -> failure_run
       /\ last_error_time' = IF me.pc = "store_error_time" THEN Some(now)
                              ELSE last_error_time
       /\ response_times' =
             CASE me.pc = "append_time" ->
                      Append(response_times, The(me.response_time))
               [] me.pc = "store_times" -> me.loaded
               [] OTHER -> response_times
       /\ alerts_history' = mc1.history
       /\ current_delay_multiplier' = mc1.multiplier
       /\ alerted' = alerted \cup alert_types(mc1.emitted)
       /\ UNCHANGED <<alert_config, alert_callbacks, is_monitoring, status,
                      memory_usage, cpu_usage, monitor_loops>>

WorkerCall ==
    /\ \E w \in Workers, success \in BOOLEAN, response_time \in {None, Some(50)},
          error_message \in {None, Some(TxtRateLimit)} :
          /\ mon_workers.workers[w].pc = "idle"
          /\ mon_workers.returned
               + Cardinality({v \in Workers :
                                 mon_workers.workers[v].pc # "idle"})
               < MaxWorkerCalls
          /\ worker_call(w, success, response_time, error_message)
    /\ UNCHANGED <<dm_vars, cb_vars, cache_vars, now, last>>

WorkerStep ==
    /\ \E w \in Workers : record_request_step(w)
    /\ UNCHANGED <<dm_vars, cb_vars, cache_vars, now, last>>

(***************************************************************************)
(* AdaptiveDelayManager (anti_blocking_strategy.py)                        *)
(***************************************************************************)
\* ScrapingConfig(): min_delay, max_delay, error_backoff_base, in ms
DefaultScrapingConfig ==
    [min_delay |-> 2000, max_delay |-> 8000, error_backoff_base |-> 5000]

\* the configuration of the module's own example run
ExampleScrapingConfig ==
    [DefaultScrapingConfig EXCEPT !.min_delay = 3000, !.max_delay = 10000]

\* a backoff small enough for the jittered delay to fall inside the interval
GentleScrapingConfig ==
    [DefaultScrapingConfig EXCEPT !.error_backoff_base = 1500]

\* a configuration with min_delay > max_delay
InvertedScrapingConfig ==
    [DefaultScrapingConfig EXCEPT !.min_delay = 9000]

ScrapingConfigs == {DefaultScrapingConfig, ExampleScrapingConfig,
                    GentleScrapingConfig, InvertedScrapingConfig}

\* values of random.uniform(0.5, 1.5), in percent
JitterPercent == {50, 100, 150}

\* outcomes recorded by one delay manager
MaxOps == 4

\* mutant: the upper clamp forgotten
clamp_delay_below_only(jittered) == Max2(jittered, config.min_delay)

\* the two clamps that end get_delay
clamp_delay(jittered) ==
    Min2(Max2(jittered, config.min_delay), config.max_delay)

\* the delay get_delay computes before jitter, from given counters
adaptive_delay_at(errors, successes, failures, current) ==
    IF errors > 0
    THEN config.error_backoff_base * Min2(2 ^ errors, 8)
    ELSE IF successes * 10 > 9 * Max2(successes + failures, 1)
         THEN config.min_delay
         ELSE current

\* the delay get_delay computes before jitter
adaptive_delay ==
    adaptive_delay_at(dm_consecutive_errors, success_count, error_count,
                      current_delay)

\* AdaptiveDelayManager.get_delay with the jitter drawn
get_delay(jitter) == clamp_delay((adaptive_delay * jitter) \div 100)

\* AdaptiveDelayManager.record_success
record_success ==
    /\ success_count' = success_count + 1
    /\ dm_consecutive_errors' = 0
    /\ UNCHANGED <<config, error_count, current_delay>>

\* AdaptiveDelayManager.record_error
record_error ==
    /\ error_count' = error_count + 1
    /\ dm_consecutive_errors' = dm_consecutive_errors + 1
    /\ UNCHANGED <<config, success_count, current_delay>>

\* AdaptiveDelayManager.__init__
DelayInit(configs) ==
    /\ config \in configs
    /\ success_count = 0
    /\ error_count = 0
    /\ dm_consecutive_errors = 0
    /\ current_delay = config.min_delay

GetDelay ==
    /\ \E jitter \in JitterPercent :
          /\ current_delay' = get_delay(jitter)
          /\ last' = [op |-> "get_delay", jitter |-> jitter,
                      result |-> get_delay(jitter)]
    /\ UNCHANGED <<config, success_count, error_count, dm_consecutive_errors>>
    /\ UNCHANGED <<mon_vars, cb_vars, cache_vars, now>>

RecordSuccess ==
    /\ success_count + error_count < MaxOps
    /\ record_success
    /\ last' = [op |-> "record_success", pre_errors |-> dm_consecutive_errors]
    /\ UNCHANGED <<mon_vars, cb_vars, cache_vars, now>>

RecordError ==
    /\ success_count + error_count < MaxOps
    /\ record_error
    /\ last' = [op |-> "record_error", pre_errors |-> dm_consecutive_errors]
    /\ UNCHANGED <<mon_vars, cb_vars, cache_vars, now>>

\* get_delay called once the counters are errors, successes and failures
get_delay_at(errors, successes, failures, current, jitter) ==
    clamp_delay((adaptive_delay_at(errors, successes, failures, current)
                   * jitter) \div 100)

\* AntiDetectionDriver.smart_wait: the condition is met in time (ok) or the
\* wait raises.  Met: get_delay, sleep, then record_success.  Raised:
\* record_error, then get_delay and a sleep of twice its result.
smart_wait(ok, jitter) ==
    LET delay == IF ok THEN get_delay(jitter)
                 ELSE get_delay_at(dm_consecutive_errors + 1, success_count,
                                   error_count + 1, current_delay, jitter)
    IN /\ current_delay' = delay
       /\ success_count' = IF ok THEN success_count + 1 ELSE success_count
       /\ error_count' = IF ok THEN error_count ELSE error_count + 1
       /\ dm_consecutive_errors' = IF ok THEN 0 ELSE dm_consecutive_errors + 1
       /\ last' = [op |-> "smart_wait", ok |-> ok, jitter |-> jitter,
                   slept |-> IF ok THEN delay ELSE delay * 2,
                   pre_errors |-> dm_consecutive_errors,
                   pre_delay |-> current_delay]
       /\ UNCHANGED config

\* AntiDetectionDriver.safe_get_page: the page loads clean, shows a block
\* keyword, or driver.get raises; the outcome is recorded and nothing slept
safe_get_page(outcome) ==
    /\ IF outcome = "loaded" THEN record_success ELSE record_error
    /\ last' = [op |-> "safe_get_page", outcome |-> outcome,
                pre_errors |-> dm_consecutive_errors]

\* operations of one driver
MaxDriverOps == 4

SmartWait ==
    /\ success_count + error_count < MaxDriverOps
    /\ \E ok \in BOOLEAN, jitter \in JitterPercent : smart_wait(ok, jitter)
    /\ UNCHANGED <<mon_vars, cb_vars, cache_vars, now>>

SafeGetPage ==
    /\ success_count + error_count < MaxDriverOps
    /\ \E outcome \in {"loaded", "blocked", "raised"} : safe_get_page(outcome)
    /\ UNCHANGED <<mon_vars, cb_vars, cache_vars, now>>

(***************************************************************************)
(* CircuitBreaker (anti_blocking_strategy.py)                              *)
(***************************************************************************)
\* CircuitBreaker(failure_threshold, recovery_timeout), timeout in clock ticks
FailureThresholds == {1, 2, 3}
RecoveryTimeouts == {1, 2}

\* the clock stops at MaxTime; a wrapped operation takes up to
\* MaxCallDuration ticks; the wrapped operation is invoked up to MaxCalls times
MaxTime == 5
MaxCallDuration == 1
MaxCalls == 5

\* mutant: the probe admitted as soon as the timeout is reached
call_admitted_early ==
    state = "OPEN" => now - The(last_failure_time) >= recovery_timeout

\* lines 291-296: whether call goes on to invoke func
call_admitted ==
    state = "OPEN" => now - The(last_failure_time) > recovery_timeout

\* the state in which func is invoked
state_on_entry == IF state = "OPEN" THEN "HALF_OPEN" ELSE state

\* mutant: every success resets the failure count
call_returned_reset_always(entry) ==
    /\ state' = IF entry = "HALF_OPEN" THEN "CLOSED" ELSE entry
    /\ failure_count' = 0
    /\ UNCHANGED last_failure_time

\* mutant: a successful probe that keeps the failure count
call_returned_no_reset(entry) ==
    /\ state' = IF entry = "HALF_OPEN" THEN "CLOSED" ELSE entry
    /\ UNCHANGED <<failure_count, last_failure_time>>

\* lines 299-307: func returned
call_returned(entry) ==
    /\ state' = IF entry = "HALF_OPEN" THEN "CLOSED" ELSE entry
    /\ failure_count' = IF entry = "HALF_OPEN" THEN 0 ELSE failure_count
    /\ UNCHANGED last_failure_time

\* mutant: a failure that leaves the state as the call found it
call_raised_state_kept(entry, failed_at) ==
    /\ failure_count' = failure_count + 1
    /\ last_failure_time' = Some(failed_at)
    /\ state' = entry

\* mutant: the breaker opens only past the threshold
call_raised_late(entry, failed_at) ==
    /\ failure_count' = failure_count + 1
    /\ last_failure_time' = Some(failed_at)
    /\ state' = IF failure_count + 1 > failure_threshold THEN "OPEN" ELSE entry

\* lines 309-317: func raised at time failed_at
call_raised(entry, failed_at) ==
    /\ failure_count' = failure_count + 1
    /\ last_failure_time' = Some(failed_at)
    /\ state' = IF failure_count + 1 >= failure_threshold THEN "OPEN" ELSE entry

\* CircuitBreaker.call(func): func returns (ok) or raises, after `duration`
call(ok, duration) ==
    LET pre == [state |-> state, failure_count |-> failure_count,
                last_failure_time |-> last_failure_time,
                invocations |-> invocations, now |-> now]
    IN IF ~call_admitted
       THEN /\ UNCHANGED <<failure_count, last_failure_time, state,
                           invocations, now>>
            /\ all_failed' = FALSE
            /\ last' = [op |-> "call", outcome |-> "rejected", pre |-> pre]
       ELSE /\ invocations' = invocations + 1
            /\ now' = now + duration
            /\ IF ok THEN call_returned(state_on_entry)
                     ELSE call_raised(state_on_entry, now + duration)
            /\ all_failed' = (all_failed /\ ~ok)
            /\ last' = [op |-> "call",
                        outcome |-> IF ok THEN "returned" ELSE "raised",
                        pre |-> pre, ended |-> now + duration]

\* a thread outside CircuitBreaker.call
IdleCaller == [pc |-> "idle", entered |-> "CLOSED", loaded |-> 0]

\* the calls the threads begin in a run
MaxBreakerCalls == 4

\* CircuitBreaker.__init__
BreakerInit(thresholds, timeouts) ==
    /\ failure_threshold \in thresholds
    /\ recovery_timeout \in timeouts
    /\ failure_count = 0
    /\ last_failure_time = None
    /\ state = "CLOSED"
    /\ invocations = 0
    /\ all_failed = TRUE
    /\ cb_workers = [workers |-> [w \in Workers |-> IdleCaller], calls |-> 0]

Call ==
    /\ invocations < MaxCalls
    /\ \E ok \in BOOLEAN, duration \in 0..MaxCallDuration :
          /\ now + duration <= MaxTime
          /\ call(ok, duration)
    /\ UNCHANGED <<failure_threshold, recovery_timeout, cb_workers>>
    /\ UNCHANGED <<mon_vars, dm_vars, cache_vars>>

\* a thread begins CircuitBreaker.call
caller_call(w) ==
    /\ cb_workers' = [cb_workers EXCEPT !.workers[w].pc = "test_open",
                                        !.calls = @ + 1]
    /\ UNCHANGED <<failure_threshold, recovery_timeout, failure_count,
                   last_failure_time, state, invocations, all_failed>>

\* one step of a thread inside CircuitBreaker.call, which takes no lock: each
\* test, load and store of a field of the breaker is a step, and the wrapped
\* operation runs between the step that invokes it and the step "in_func"
\* that ends it, returning (ok) or raising
call_step(w, ok) ==
    LET me == cb_workers.workers[w]
        elapsed == now - The(last_failure_time) > recovery_timeout
        pc == CASE me.pc = "test_open" ->
                       IF state = "OPEN" THEN "test_timeout" ELSE "in_func"
                [] me.pc = "test_timeout" ->
                       IF elapsed THEN "set_half_open" ELSE "idle"
                [] me.pc = "set_half_open" -> "in_func"
                [] me.pc = "in_func" ->
                       IF ok THEN "test_half_open" ELSE "load_count"
                [] me.pc = "test_half_open" ->
                       IF state = "HALF_OPEN" THEN "close" ELSE "idle"
                [] me.pc = "close" -> "reset_count"
                [] me.pc = "reset_count" -> "idle"
                [] me.pc = "load_count" -> "store_count"
                [] me.pc = "store_count" -> "store_time"
                [] me.pc = "store_time" -> "test_threshold"
                [] me.pc = "test_threshold" ->
                       IF failure_count >= failure_threshold
                       THEN "open" ELSE "idle"
                [] me.pc = "open" -> "idle"
        invoked == pc = "in_func"
    IN /\ me.pc # "idle"
       /\ cb_workers' = [cb_workers EXCEPT !.workers[w] =
               IF pc = "idle" THEN IdleCaller
               ELSE [pc |-> pc,
                     entered |-> IF me.pc = "set_half_open" THEN "HALF_OPEN"
                                 ELSE IF invoked THEN state ELSE me.entered,
                     loaded |-> IF me.pc = "load_count" THEN failure_count
                                ELSE me.loaded]]
       /\ state' = CASE me.pc = "set_half_open" -> "HALF_OPEN"
                      [] me.pc = "close" -> "CLOSED"
                      [] me.pc = "open" -> "OPEN"
                      [] OTHER -> state
       /\ failure_count' = CASE me.pc = "reset_count" -> 0
                              [] me.pc = "store_count" -> me.loaded + 1
                              [] OTHER -> failure_count
       /\ last_failure_time' = IF me.pc = "store_time" THEN Some(now)
                                ELSE last_failure_time
       /\ invocations' = IF invoked THEN invocations + 1 ELSE invocations
       /\ all_failed' = CASE me.pc = "test_timeout" /\ ~elapsed -> FALSE
                           [] me.pc = "in_func" -> all_failed /\ ~ok
                           [] OTHER -> all_failed
       /\ UNCHANGED <<failure_threshold, recovery_timeout>>

CallerCall ==
    /\ cb_workers.calls < MaxBreakerCalls
    /\ \E w \in Workers :
          /\ cb_workers.workers[w].pc = "idle"
          /\ caller_call(w)
    /\ UNCHANGED <<mon_vars, dm_vars, cache_vars, now, last>>

CallerStep ==
    /\ \E w \in Workers :
          \E ok \in IF cb_workers.workers[w].pc = "in_func"
                    THEN BOOLEAN ELSE {TRUE} : call_step(w, ok)
    /\ UNCHANGED <<mon_vars, dm_vars, cache_vars, now, last>>

\* time passes between calls
TickUpTo(cap) ==
    /\ now < cap
    /\ now' = now + 1
    /\ UNCHANGED <<mon_vars, dm_vars, cb_vars, cache_vars, last>>

(***************************************************************************)
(* CacheManager (performance_optimizer.py)                                 *)
(***************************************************************************)
CategoryNames == {"marketing", "seo"}
CategoryUrls == {"u1", "u2"}
PromptLists == {<<>>, <<"p1", "p2">>}

\* hash() of the two URLs under each seed of the process; the second seed
\* makes them collide
HashTable == << [u1 |-> 11, u2 |-> 22], [u1 |-> 22, u2 |-> 22] >>
HashSeeds == DOMAIN HashTable

\* the cache holds CacheLimit entries (50 in the source, scaled down); an
\* entry is valid for CacheTTL ticks (86400 s: a tick of the clock is 24 h)
CacheLimit == 2
CacheTTL == 1

\* the clock of the cache stops at MaxCacheTime
MaxCacheTime == 2

\* hash(category_url)
hash(url) == HashTable[hash_seed][url]

\* f"{category_name}_{hash(category_url)}": the text of an integer holds no
\* underscore, so the string determines the pair and the pair stands for it
cache_key(category_name, category_url) == <<category_name, hash(category_url)>>

\* key in d
dict_has(d, k) == \E i \in DOMAIN d : d[i].key = k

\* d[k]
dict_get(d, k) == d[CHOOSE i \in DOMAIN d : d[i].key = k].value

\* d[k] = v: an existing key keeps its place, a new one goes last
dict_set(d, k, v) ==
    IF dict_has(d, k)
    THEN [i \in DOMAIN d |-> IF d[i].key = k THEN [key |-> k, value |-> v]
                                              ELSE d[i]]
    ELSE Append(d, [key |-> k, value |-> v])

\* del d[k]
dict_del(d, k) == SelectSeq(d, LAMBDA e : e.key # k)

\* mutant: the entry with the largest timestamp
oldest_key_newest(d) ==
    d[CHOOSE i \in DOMAIN d :
        \A j \in DOMAIN d :
            \/ d[i].value.timestamp > d[j].value.timestamp
            \/ d[i].value.timestamp = d[j].value.timestamp /\ i >= j].key

\* mutant: the last of the smallest timestamps
oldest_key_last(d) ==
    d[CHOOSE i \in DOMAIN d :
        \A j \in DOMAIN d :
            \/ d[i].value.timestamp < d[j].value.timestamp
            \/ d[i].value.timestamp = d[j].value.timestamp /\ i >= j].key

\* min(d.keys(), key=lambda k: d[k]['timestamp']): the first smallest
oldest_key(d) ==
    d[CHOOSE i \in DOMAIN d :
        \A j \in DOMAIN d :
            \/ d[i].value.timestamp < d[j].value.timestamp
            \/ d[i].value.timestamp = d[j].value.timestamp /\ i <= j].key

\* lines 280-284 of cache_category
limit_cache(d) ==
    IF Len(d) > CacheLimit THEN dict_del(d, oldest_key(d)) ELSE d

\* CacheManager.cache_category: the dict it leaves
cache_category(category_name, category_url, prompts) ==
    limit_cache(dict_set(cache_data, cache_key(category_name, category_url),
                         [prompts |-> prompts, timestamp |-> now,
                          count |-> Len(prompts)]))

\* mutant: an entry still valid at the very end of its TTL
cache_valid_inclusive(cache_time) == now - cache_time <= CacheTTL

\* whether an entry stored at cache_time is still valid (line 264)
cache_valid(cache_time) == now - cache_time < CacheTTL

\* CacheManager.get_cached_category: Some(prompts) on a hit, None on a miss
get_cached_category(category_name, category_url) ==
    LET k == cache_key(category_name, category_url)
    IN IF dict_has(cache_data, k) /\ cache_valid(dict_get(cache_data, k).timestamp)
       THEN Some(dict_get(cache_data, k).prompts)
       ELSE None

\* what a lookup leaves in the dict
cache_after_get(category_name, category_url) == cache_data

\* CacheManager._load_cache: the parsed file; {} when there is no file
\* (FileNotFoundError) or when json.load raises on a file cut short
_load_cache(file) ==
    IF file.state = "complete" THEN file.entries ELSE <<>>

\* CacheManager.save_cache run to its end: open(..., 'w') empties the file
\* and json.dump writes the whole dict; string keys, lists, numbers and the
\* order of the keys come back from json.load as they were written
save_cache(d) == [state |-> "complete", entries |-> d]

\* the process dies inside save_cache, after open(..., 'w') has emptied the
\* file and before json.dump has written all of it
save_cache_interrupted ==
    [state |-> "partial", entries |-> cache_file.entries]

\* a worker thread outside the CacheManager
IdleCacheWorker == [pc |-> "idle", key |-> <<>>, prompts |-> <<>>,
                    oldest |-> <<>>]

\* the calls the worker threads begin in a run
MaxCacheCalls == 4

\* CacheManager.__init__ with no cache file on disk
CacheInit(seeds) ==
    /\ hash_seed \in seeds
    /\ cache_file = [state |-> "absent", entries |-> <<>>]
    /\ cache_data = _load_cache(cache_file)
    /\ cache_workers = [workers |-> [w \in Workers |-> IdleCacheWorker],
                        calls |-> 0, raised |-> 0]

CacheCategoryWith(names, urls, lists) ==
    /\ \E n \in names, u \in urls, prompts \in lists :
          /\ cache_data' = cache_category(n, u, prompts)
          /\ last' = [op |-> "cache_category", name |-> n, url |-> u,
                      prompts |-> prompts, at |-> now, pre |-> cache_data]
    /\ UNCHANGED <<hash_seed, cache_file, now, cache_workers>>
    /\ UNCHANGED <<mon_vars, dm_vars, cb_vars>>

CacheCategory == CacheCategoryWith(CategoryNames, CategoryUrls, PromptLists)

GetCachedCategoryWith(names, urls) ==
    /\ \E n \in names, u \in urls :
          /\ cache_data' = cache_after_get(n, u)
          /\ last' = [op |-> "get_cached_category", name |-> n, url |-> u,
                      result |-> get_cached_category(n, u), at |-> now,
                      pre |-> cache_data,
                      prev |-> IF last.op = "cache_category"
                               THEN [op |-> last.op, name |-> last.name,
                                     url |-> last.url,
                                     prompts |-> last.prompts, at |-> last.at,
                                     was_full |-> Len(last.pre) = CacheLimit,
                                     was_new |-> ~dict_has(last.pre,
                                        cache_key(last.name, last.url))]
                               ELSE [op |-> last.op]]
    /\ UNCHANGED <<hash_seed, cache_file, now, cache_workers>>
    /\ UNCHANGED <<mon_vars, dm_vars, cb_vars>>

GetCachedCategory == GetCachedCategoryWith(CategoryNames, CategoryUrls)

SaveCache ==
    /\ cache_file' = save_cache(cache_data)
    /\ last' = [op |-> "save_cache",
                put |-> IF last.op = "cache_category"
                        THEN Some([name |-> last.name, url |-> last.url,
                                   prompts |-> last.prompts, at |-> last.at])
                        ELSE None]
    /\ UNCHANGED <<cache_data, hash_seed, now, cache_workers>>
    /\ UNCHANGED <<mon_vars, dm_vars, cb_vars>>

\* the process ends and a later run constructs its CacheManager: hash() has
\* the seed of the new process and cache_data is what _load_cache reads
next_run(file) ==
    /\ hash_seed' \in HashSeeds
    /\ cache_file' = file
    /\ cache_data' = _load_cache(file)
    /\ UNCHANGED <<now, cache_workers>>
    /\ UNCHANGED <<mon_vars, dm_vars, cb_vars>>

\* the run ends outside save_cache (at its end, or killed)
Restart ==
    /\ next_run(cache_file)
    /\ last' = [op |-> "restart",
                put |-> IF last.op = "save_cache" THEN last.put ELSE None]

\* the run is killed inside save_cache
CrashInSave ==
    /\ next_run(save_cache_interrupted)
    /\ last' = [op |-> "crash_in_save", put |-> None]

\* the categories of the site, a name and a link each: "marketing" under
\* either URL, "seo" under the first
Categories ==
    {c \in [nome : CategoryNames, link : CategoryUrls] :
        c.nome = "seo" => c.link = "u1"}

\* the category lists given to extract_all_categories: one or two categories
\* of different names
CategoryLists ==
    {<<c>> : c \in Categories}
        \cup {p \in Categories \X Categories : p[1].nome # p[2].nome}

\* what extract_func does with a category: it returns a list of prompts, or
\* raises (None)
Outcomes == {None} \cup {Some(prompts) : prompts \in PromptLists}

\* Python truthiness of an Optional list: None and [] are false
truthy_list(o) == o # None /\ The(o) # <<>>

\* lines 370-378: the categories of the list found in the cache
found_in_cache(categories) ==
    {i \in DOMAIN categories :
        truthy_list(get_cached_category(categories[i].nome, categories[i].link))}

\* extract_with_metrics over the categories to process, in the order of the
\* list: the dict after each result that was not an exception is cached
RECURSIVE cache_results(_, _, _, _)
cache_results(d, categories, outcomes, todo) ==
    IF todo = {} THEN d
    ELSE LET i == CHOOSE j \in todo : \A k \in todo : j <= k
             c == categories[i]
         IN cache_results(
                IF outcomes[i] = None THEN d
                ELSE limit_cache(dict_set(d, cache_key(c.nome, c.link),
                                          [prompts |-> The(outcomes[i]),
                                           timestamp |-> now,
                                           count |-> Len(The(outcomes[i]))])),
                categories, outcomes, todo \ {i})

\* OptimizedScraper.extract_all_categories: the lookups, the extraction of
\* what was not found, the caching of its results, the merged results by
\* category name and the save_cache that ends it
extract_all_categories(categories, outcomes) ==
    LET cached == found_in_cache(categories)
        todo == DOMAIN categories \ cached
        names == {categories[i].nome : i \in DOMAIN categories}
        index(n) == CHOOSE i \in DOMAIN categories : categories[i].nome = n
        final == cache_results(cache_data, categories, outcomes, todo)
    IN /\ cache_data' = final
       /\ cache_file' = save_cache(final)
       /\ last' = [op |-> "extract_all_categories",
                   categories |-> categories, extracted |-> todo,
                   results |->
                     [n \in names |->
                        IF index(n) \in cached
                        THEN The(get_cached_category(n,
                                     categories[index(n)].link))
                        ELSE IF outcomes[index(n)] = None THEN <<>>
                        ELSE The(outcomes[index(n)])],
                   pre |-> cache_data, at |-> now]
       /\ UNCHANGED <<hash_seed, now, cache_workers>>

ExtractAllCategories ==
    /\ \E categories \in CategoryLists :
          \E outcomes \in [DOMAIN categories \ found_in_cache(categories)
                               -> Outcomes] :
              extract_all_categories(categories, outcomes)
    /\ UNCHANGED <<mon_vars, dm_vars, cb_vars>>

\* a worker thread begins cache_category (from extract_with_metrics, run by
\* the pool of process_categories_parallel) or get_cached_category
cache_worker_call(w, method, category_name, category_url, prompts) ==
    /\ cache_workers' = [cache_workers EXCEPT
            !.workers[w] = [pc |-> IF method = "cache_category"
                                   THEN "store" ELSE "get_test",
                            key |-> cache_key(category_name, category_url),
                            prompts |-> prompts, oldest |-> <<>>],
            !.calls = @ + 1]
    /\ UNCHANGED <<cache_data, hash_seed, cache_file>>

\* one step of a worker thread inside cache_category or get_cached_category,
\* which take no lock: the store of the entry, the test of the size, the
\* search for the oldest key and its deletion are steps of their own, and so
\* are the membership test and the read of a lookup; del and d[k] raise
\* KeyError when another thread has deleted the key in between
cache_step(w) ==
    LET me == cache_workers.workers[w]
        key_error == \/ me.pc = "delete" /\ ~dict_has(cache_data, me.oldest)
                     \/ me.pc = "get_read" /\ ~dict_has(cache_data, me.key)
        pc == CASE me.pc = "store" -> "test_len"
                [] me.pc = "test_len" ->
                       IF Len(cache_data) > CacheLimit
                       THEN "find_oldest" ELSE "idle"
                [] me.pc = "find_oldest" -> "delete"
                [] me.pc = "delete" -> "idle"
                [] me.pc = "get_test" ->
                       IF dict_has(cache_data, me.key)
                       THEN "get_read" ELSE "idle"
                [] me.pc = "get_read" -> "idle"
    IN /\ me.pc # "idle"
       /\ cache_workers' = [cache_workers EXCEPT
               !.workers[w] =
                   IF pc = "idle" THEN IdleCacheWorker
                   ELSE [@ EXCEPT !.pc = pc,
                                  !.oldest = IF me.pc = "find_oldest"
                                             THEN oldest_key(cache_data)
                                             ELSE @],
               !.raised = IF key_error THEN @ + 1 ELSE @]
       /\ cache_data' =
             CASE me.pc = "store" ->
                      dict_set(cache_data, me.key,
                               [prompts |-> me.prompts, timestamp |-> now,
                                count |-> Len(me.prompts)])
               [] me.pc = "delete" /\ ~key_error ->
                      dict_del(cache_data, me.oldest)
               [] OTHER -> cache_data
       /\ UNCHANGED <<hash_seed, cache_file>>

CacheWorkerCall ==
    /\ cache_workers.calls < MaxCacheCalls
    /\ \E w \in Workers, method \in {"cache_category", "get_cached_category"},
          n \in CategoryNames, u \in CategoryUrls :
          /\ cache_workers.workers[w].pc = "idle"
          /\ cache_worker_call(w, method, n, u, <<"p1", "p2">>)
    /\ UNCHANGED <<mon_vars, dm_vars, cb_vars, now, last>>

CacheWorkerStep ==
    /\ \E w \in Workers : cache_step(w)
    /\ UNCHANGED <<mon_vars, dm_vars, cb_vars, now, last>>

(***************************************************************************)
(* Specifications: one per object, the others left as constructed          *)
(***************************************************************************)
\* CircuitBreaker() with its defaults
DefaultBreakerInit == BreakerInit({5}, {300})

Idle == now = 0 /\ last = [op |-> "init"]

RecordRequest ==
    RecordRequestWith(MaxRequests, ResponseTimeInputs, ErrorMessageInputs)

\* outcomes with no error text
RecordPlainRequest == RecordRequestWith(RunRequests, PlainResponseTimes, {None})

\* the monitor and a delay manager fed side by side
RecordBoth == RecordRequestWith(MaxOps, ResponseTimeInputs, ErrorMessageInputs)

RecordSpecInit ==
    /\ MonitorInit({DefaultAlertConfig}) /\ DelayInit({DefaultScrapingConfig})
    /\ DefaultBreakerInit /\ CacheInit({1}) /\ Idle

MonitorSpecInit ==
    /\ MonitorInit(AlertConfigs) /\ DelayInit({DefaultScrapingConfig})
    /\ DefaultBreakerInit /\ CacheInit({1}) /\ Idle

SpecMonitor == MonitorSpecInit /\ [][RecordRequest]_vars

SpecMonitorRun == MonitorSpecInit /\ [][RecordPlainRequest]_vars

DelaySpecInit ==
    /\ MonitorInit({DefaultAlertConfig}) /\ DelayInit(ScrapingConfigs)
    /\ DefaultBreakerInit /\ CacheInit({1}) /\ Idle

DelayNext == GetDelay \/ RecordSuccess \/ RecordError

SpecDelay == DelaySpecInit /\ [][DelayNext]_vars

RecordNext == RecordBoth \/ RecordSuccess \/ RecordError

SpecRecord == RecordSpecInit /\ [][RecordNext]_vars

BreakerSpecInit ==
    /\ MonitorInit({DefaultAlertConfig}) /\ DelayInit({DefaultScrapingConfig})
    /\ BreakerInit(FailureThresholds, RecoveryTimeouts) /\ CacheInit({1}) /\ Idle

BreakerTick == TickUpTo(MaxTime)

BreakerNext == Call \/ BreakerTick

SpecBreaker == BreakerSpecInit /\ [][BreakerNext]_vars

\* the monitor with its loop: requests, callbacks, start and stop, ticks
MaxLoopRequests == 2

RecordLoopRequest ==
    RecordRequestWith(MaxLoopRequests, {None, Some(50)},
                      {None, Some(TxtRateLimit)})

\* what psutil reads while the loop runs: memory below and above the limit
LoopReadings == {<<512, 20>>, <<2048, 20>>}

MonitorTick == MonitorTickWith(LoopReadings)

MonitorLoopSpecInit ==
    /\ MonitorInit({SystemAlertConfig}) /\ DelayInit({DefaultScrapingConfig})
    /\ DefaultBreakerInit /\ CacheInit({1}) /\ Idle

MonitorLoopNext ==
    \/ RecordLoopRequest \/ AddAlertCallback \/ StartMonitoring
    \/ MonitorTick

SpecMonitorLoop == MonitorLoopSpecInit /\ [][MonitorLoopNext]_vars

\* a long run with the loop ticking when it is started: the first
\* WarmupRequests outcomes alternate, failure first, the later ones are free
WarmupRequests == 20
ScenarioRequests == 23

RecordScenarioRequest ==
    /\ total_requests < ScenarioRequests
    /\ \E success \in BOOLEAN, response_time \in {None, Some(50)} :
          /\ total_requests < WarmupRequests =>
                success = (total_requests % 2 = 1)
          /\ record_request(success, response_time, None)
    /\ UNCHANGED <<dm_vars, cb_vars, cache_vars, now>>

ScenarioTick == MonitorTickWith({<<512, 20>>})

ScenarioSpecInit ==
    /\ MonitorInit({DefaultAlertConfig}) /\ DelayInit({DefaultScrapingConfig})
    /\ DefaultBreakerInit /\ CacheInit({1}) /\ Idle

ScenarioNext ==
    \/ RecordScenarioRequest \/ StartMonitoring \/ StopMonitoring
    \/ MonitorLoopExit \/ ScenarioTick

\* a started loop that is not stopped keeps iterating: each iteration ends
\* in a sleep of 10 s, or of 30 s after an exception
SpecMonitorScenario ==
    ScenarioSpecInit /\ [][ScenarioNext]_vars /\ WF_vars(ScenarioTick)

\* failures with every kind of error text, up to the run of errors that
\* makes the status BLOCKED
MaxKeywordRequests == 6

RecordKeywordRequest ==
    RecordRequestWith(MaxKeywordRequests, {None},
                      {None} \cup {Some(m) : m \in KeywordErrorTexts})

KeywordSpecInit ==
    /\ MonitorInit(KeywordAlertConfigs) /\ DelayInit({DefaultScrapingConfig})
    /\ DefaultBreakerInit /\ CacheInit({1}) /\ Idle

SpecMonitorKeywords == KeywordSpecInit /\ [][RecordKeywordRequest]_vars

\* the call sites of the delay manager in AntiDetectionDriver
DriverSpecInit ==
    /\ MonitorInit({DefaultAlertConfig})
    /\ DelayInit({DefaultScrapingConfig, GentleScrapingConfig})
    /\ DefaultBreakerInit /\ CacheInit({1}) /\ Idle

DriverNext == SmartWait \/ SafeGetPage

SpecDriver == DriverSpecInit /\ [][DriverNext]_vars

\* the CacheManager over several runs of the program
PersistSpecInit ==
    /\ MonitorInit({DefaultAlertConfig}) /\ DelayInit({DefaultScrapingConfig})
    /\ DefaultBreakerInit /\ CacheInit(HashSeeds) /\ Idle

PersistTick == TickUpTo(MaxCacheTime)

PersistPut == CacheCategoryWith({"marketing"}, CategoryUrls, PromptLists)

PersistGet == GetCachedCategoryWith({"marketing"}, CategoryUrls)

PersistNext ==
    \/ PersistPut \/ PersistGet \/ SaveCache \/ Restart
    \/ CrashInSave \/ PersistTick

SpecCachePersist == PersistSpecInit /\ [][PersistNext]_vars

\* extract_all_categories in front of the cache
ExtractSpecInit ==
    /\ MonitorInit({DefaultAlertConfig}) /\ DelayInit({DefaultScrapingConfig})
    /\ DefaultBreakerInit /\ CacheInit({1}) /\ Idle

\* the clock of this run stops one TTL after its start, when what was cached
\* at the start has expired
MaxExtractTime == 1

ExtractTick == TickUpTo(MaxExtractTime)

ExtractNext == ExtractAllCategories \/ ExtractTick

SpecCacheExtract == ExtractSpecInit /\ [][ExtractNext]_vars

\* the CacheManager used from several worker threads
CacheWorkersSpecInit ==
    /\ MonitorInit({DefaultAlertConfig}) /\ DelayInit({DefaultScrapingConfig})
    /\ DefaultBreakerInit /\ CacheInit({1}) /\ Idle

CacheWorkersTick == TickUpTo(MaxCacheTime)

CacheWorkersNext == CacheWorkerCall \/ CacheWorkerStep \/ CacheWorkersTick

SpecCacheWorkers == CacheWorkersSpecInit /\ [][CacheWorkersNext]_vars

\* CircuitBreaker.call from several threads
CallersSpecInit ==
    /\ MonitorInit({DefaultAlertConfig}) /\ DelayInit({DefaultScrapingConfig})
    /\ BreakerInit({1, 2}, {1}) /\ CacheInit({1}) /\ Idle

CallersTick == TickUpTo(MaxTime)

CallersNext == CallerCall \/ CallerStep \/ CallersTick

SpecBreakerCallers == CallersSpecInit /\ [][CallersNext]_vars

WorkersSpecInit ==
    /\ MonitorInit({DefaultAlertConfig}) /\ DelayInit({DefaultScrapingConfig})
    /\ DefaultBreakerInit /\ CacheInit({1}) /\ Idle

WorkersNext == WorkerCall \/ WorkerStep

SpecMonitorWorkers == WorkersSpecInit /\ [][WorkersNext]_vars

CacheSpecInit ==
    /\ MonitorInit({DefaultAlertConfig}) /\ DelayInit({DefaultScrapingConfig})
    /\ DefaultBreakerInit /\ CacheInit(HashSeeds) /\ Idle

CacheTick == TickUpTo(MaxCacheTime)

CacheNext == CacheCategory \/ GetCachedCategory \/ CacheTick

SpecCache == CacheSpecInit /\ [][CacheNext]_vars

(***************************************************************************)
(* Properties                                                              *)
(***************************************************************************)
\* C1: after every record_request call, successful_requests +
\* failed_requests equals total_requests.
C1_CountersAddUp == successful_requests + failed_requests = total_requests

C1_Witness ==
    /\ last.op = "record_request" /\ ~last.success /\ last.emitted # <<>>
    /\ successful_requests >= 2 /\ failed_requests >= 2
    /\ response_times # <<>>

\* C2: right after a recorded success (record_request(success=True) of the
\* monitor, record_success of the delay manager) the consecutive-failure
\* counter of that object is 0, whatever it was before.
C2_SuccessResetsErrors ==
    /\ last.op = "record_request" /\ last.success => consecutive_errors = 0
    /\ last.op = "record_success" => dm_consecutive_errors = 0

C2_Witness ==
    /\ last.op = "record_success" /\ last.pre_errors >= 2
    /\ dm_consecutive_errors = 0
    /\ failed_requests >= 2 /\ successful_requests >= 1 /\ consecutive_errors = 0

\* C3: with min_delay <= max_delay, the delay get_delay returns and the
\* current_delay it stores lie in [min_delay, max_delay], for every jitter and
\* every history of recorded outcomes.
C3_DelayWithinBounds ==
    config.min_delay <= config.max_delay =>
        /\ config.min_delay <= current_delay /\ current_delay <= config.max_delay
        /\ last.op = "get_delay" =>
              /\ config.min_delay <= last.result
              /\ last.result <= config.max_delay
              /\ current_delay = last.result

C3_Witness ==
    /\ last.op = "get_delay" /\ last.jitter = 150
    /\ config.min_delay < last.result /\ last.result < config.max_delay
    /\ error_count > 0 /\ success_count > 0

\* C4: whenever consecutive_errors has reached consecutive_errors_threshold,
\* and so after that many failures recorded in a row from any prior state,
\* get_health_status returns BLOCKED whatever the totals, the failure rate,
\* the latencies and the resource readings are.
C4_BlockedAtThreshold ==
    \A r \in Readings :
        /\ consecutive_errors >= alert_config.consecutive_errors_threshold
              => get_health_status(r[1], r[2]) = BLOCKED
        /\ failure_run >= alert_config.consecutive_errors_threshold
              => get_health_status(r[1], r[2]) = BLOCKED

C4_Witness ==
    /\ alert_config.consecutive_errors_threshold = 5
    /\ failure_run = 5 /\ successful_requests >= 6
    /\ total_requests > 10
    /\ failed_requests * 100 > alert_config.max_error_rate * total_requests
    /\ response_times # <<>>

\* C5 as stated: after a success recorded while the status was BLOCKED, the
\* status is CRITICAL when failed/total exceeds max_error_rate and at least
\* WARNING when failed/total exceeds 0.1.
C5_Original ==
    last.op = "record_request" /\ last.success
      /\ last.pre_errors >= alert_config.consecutive_errors_threshold =>
        \A r \in Readings :
            /\ failed_requests * 100 > alert_config.max_error_rate * total_requests
                  => get_health_status(r[1], r[2]) = CRITICAL
            /\ failed_requests * 10 > total_requests
                  => get_health_status(r[1], r[2]) \in {WARNING, CRITICAL}

\* C5 amended: after a success recorded while the status was BLOCKED, once
\* more than 10 requests have been recorded the status is CRITICAL when
\* failed/total exceeds max_error_rate and at least WARNING when failed/total
\* exceeds 0.1.
C5_RateDecidesPastTenRequests ==
    last.op = "record_request" /\ last.success
      /\ last.pre_errors >= alert_config.consecutive_errors_threshold
      /\ total_requests > 10 =>
        \A r \in Readings :
            /\ failed_requests * 100 > alert_config.max_error_rate * total_requests
                  => get_health_status(r[1], r[2]) = CRITICAL
            /\ failed_requests * 10 > total_requests
                  => get_health_status(r[1], r[2]) \in {WARNING, CRITICAL}

C5_Witness ==
    /\ last.op = "record_request" /\ last.success
    /\ last.pre_errors >= alert_config.consecutive_errors_threshold
    /\ total_requests > 10
    /\ failed_requests * 10 > total_requests
    /\ failed_requests * 100 <= alert_config.max_error_rate * total_requests
    /\ get_health_status(512, 20) = WARNING

\* C6: from a fresh breaker with failure_threshold N, the breaker is CLOSED
\* after each of the first N-1 failing calls and OPEN, with last_failure_time
\* set, after the Nth; and CLOSED becomes OPEN only in a failing call that
\* brings failure_count to N or more.
C6_OpensAtThreshold ==
    /\ all_failed =>
          /\ invocations < failure_threshold =>
                state = "CLOSED" /\ failure_count = invocations
          /\ invocations = failure_threshold =>
                state = "OPEN" /\ last_failure_time # None
    /\ last.op = "call" /\ last.pre.state = "CLOSED" /\ state = "OPEN" =>
          /\ last.outcome = "raised"
          /\ failure_count >= failure_threshold
          /\ failure_count = last.pre.failure_count + 1

C6_Witness ==
    /\ all_failed /\ failure_threshold = 3 /\ invocations = 3
    /\ state = "OPEN" /\ last.pre.state = "CLOSED"

\* C7: a call made while OPEN before recovery_timeout has elapsed since
\* last_failure_time is rejected without invoking the wrapped operation and
\* leaves state, failure_count and last_failure_time as they were.
C7_OpenRejects ==
    last.op = "call" /\ last.pre.state = "OPEN"
      /\ last.pre.now - The(last.pre.last_failure_time) <= recovery_timeout =>
        /\ last.outcome = "rejected"
        /\ invocations = last.pre.invocations
        /\ state = last.pre.state
        /\ failure_count = last.pre.failure_count
        /\ last_failure_time = last.pre.last_failure_time

C7_Witness ==
    /\ last.op = "call" /\ last.outcome = "rejected"
    /\ last.pre.now - The(last.pre.last_failure_time) = recovery_timeout
    /\ state = "OPEN"

\* C8: a call made while OPEN after more than recovery_timeout invokes the
\* wrapped operation exactly once; if it succeeds the breaker is CLOSED with
\* failure_count 0, if it fails the breaker is OPEN with last_failure_time
\* set to the time of that failure.
C8_HalfOpenProbe ==
    last.op = "call" /\ last.pre.state = "OPEN"
      /\ last.pre.now - The(last.pre.last_failure_time) > recovery_timeout =>
        /\ invocations = last.pre.invocations + 1
        /\ last.outcome \in {"returned", "raised"}
        /\ last.outcome = "returned" => state = "CLOSED" /\ failure_count = 0
        /\ last.outcome = "raised" =>
              state = "OPEN" /\ last_failure_time = Some(last.ended)

C8_Witness ==
    /\ last.op = "call" /\ last.pre.state = "OPEN" /\ last.outcome = "raised"
    /\ state = "OPEN" /\ failure_count > failure_threshold
    /\ The(last_failure_time) > The(last.pre.last_failure_time)

\* C9: cache_category(k, v) directly followed by get_cached_category(k)
\* returns v, from every cache state, a full cache included.
C9_PutThenGet ==
    last.op = "get_cached_category" /\ last.prev.op = "cache_category"
      /\ last.prev.name = last.name /\ last.prev.url = last.url
      /\ last.at = last.prev.at =>
        last.result = Some(last.prev.prompts)

C9_Witness ==
    /\ last.op = "get_cached_category" /\ last.prev.op = "cache_category"
    /\ last.prev.name = last.name /\ last.prev.url = last.url
    /\ last.at = last.prev.at
    /\ Len(cache_data) = CacheLimit
    /\ \A i \in DOMAIN cache_data : cache_data[i].value.timestamp = now
    /\ cache_data[Len(cache_data)].key = cache_key(last.name, last.url)
    /\ last.prev.was_full /\ last.prev.was_new

\* C10: get_cached_category misses an entry whose age is at least the TTL,
\* returns the stored payload unchanged when the age is below the TTL, and
\* leaves the dict as it was, the expired entry included.
C10_ExpiryOnLookup ==
    last.op = "get_cached_category" =>
        LET k == cache_key(last.name, last.url)
        IN /\ cache_data = last.pre
           /\ ~dict_has(last.pre, k) => last.result = None
           /\ dict_has(last.pre, k) =>
                 LET entry == dict_get(last.pre, k)
                 IN /\ last.at - entry.timestamp >= CacheTTL
                          => last.result = None
                    /\ last.at - entry.timestamp < CacheTTL
                          => last.result = Some(entry.prompts)

C10_Witness ==
    /\ last.op = "get_cached_category" /\ last.result = None
    /\ dict_has(cache_data, cache_key(last.name, last.url))
    /\ now - dict_get(cache_data, cache_key(last.name, last.url)).timestamp
         = CacheTTL

\* C11: cache_category of a key the cache does not hold, into a cache of
\* CacheLimit entries, removes exactly one entry, one stored before the call
\* whose timestamp is the smallest, keeps the inserted entry and leaves
\* CacheLimit entries; below the limit it removes nothing, and overwriting a
\* key the cache holds removes nothing at any size.
C11_EvictsOldest ==
    last.op = "cache_category" =>
        LET k == cache_key(last.name, last.url)
            pre == last.pre
            gone == {i \in DOMAIN pre : ~dict_has(cache_data, pre[i].key)}
        IN /\ dict_has(cache_data, k)
           /\ dict_get(cache_data, k).prompts = last.prompts
           /\ dict_has(pre, k) => gone = {} /\ Len(cache_data) = Len(pre)
           /\ ~dict_has(pre, k) /\ Len(pre) < CacheLimit =>
                 gone = {} /\ Len(cache_data) = Len(pre) + 1
           /\ ~dict_has(pre, k) /\ Len(pre) = CacheLimit =>
                 /\ Cardinality(gone) = 1
                 /\ \A i \in gone, j \in DOMAIN pre :
                       pre[i].value.timestamp <= pre[j].value.timestamp
                 /\ Len(cache_data) = CacheLimit

\* a full cache whose oldest entry is not the first inserted one loses that
\* oldest entry to a new key
C11_Witness ==
    /\ last.op = "cache_category"
    /\ ~dict_has(last.pre, cache_key(last.name, last.url))
    /\ Len(last.pre) = CacheLimit
    /\ last.pre[1].value.timestamp > last.pre[Len(last.pre)].value.timestamp
    /\ dict_has(cache_data, last.pre[1].key)
    /\ ~dict_has(cache_data, last.pre[Len(last.pre)].key)
    /\ Len(cache_data) = CacheLimit

\* C12 as stated: with the default configuration, after 25 recorded requests
\* of which exactly 13 failed, in whatever order, get_health_status returns
\* CRITICAL.
C12_Original ==
    alert_config = DefaultAlertConfig
      /\ total_requests = 25 /\ failed_requests = 13 =>
        \A r \in Readings : get_health_status(r[1], r[2]) = CRITICAL

\* C12 amended: with the default configuration, after 25 recorded requests
\* of which exactly 13 failed, get_health_status returns CRITICAL when the
\* requests do not end with a run of 5 or more failures, and BLOCKED when
\* they do.
C12_CriticalUnlessBlocked ==
    alert_config = DefaultAlertConfig
      /\ total_requests = 25 /\ failed_requests = 13 =>
        \A r \in Readings :
            get_health_status(r[1], r[2]) =
                IF failure_run >= 5 THEN BLOCKED ELSE CRITICAL

C12_Witness ==
    /\ alert_config = DefaultAlertConfig
    /\ total_requests = 25 /\ failed_requests = 13
    /\ failure_run = 4 /\ last.op = "record_request"
    /\ response_times # <<>>
    /\ get_health_status(2048, 95) = CRITICAL

\* the condition of the high-failure-rate alert, and whether one was emitted
HighFailureRate == total_requests > 20 /\ failed_requests * 2 > total_requests
HighFailureRateAlerted == "ALTA_TAXA_ERRO" \in alerted

\* C13 as stated: once total_requests > 20 and failed/total > 0.5, an
\* ALTA_TAXA_ERRO alert has been or will be emitted, whether or not another
\* request is recorded.
C13_Original == HighFailureRate ~> HighFailureRateAlerted

\* C13 amended: when from some time on monitoring is on (started and not
\* stopped) and total_requests > 20 and failed/total > 0.5 keep holding, as
\* they do when no further request is recorded, an ALTA_TAXA_ERRO alert is
\* eventually emitted by the loop.
C13_AlertWhileRateStaysHigh ==
    <>[](HighFailureRate /\ is_monitoring) => <>HighFailureRateAlerted

\* the first tick that finds the rate high, right past 20 requests
C13_Witness ==
    /\ last.op = "tick"
    /\ \E i \in DOMAIN last.emitted : last.emitted[i].type = "ALTA_TAXA_ERRO"
    /\ last.pre_multiplier = initial_delay_multiplier
    /\ total_requests = 21 /\ failed_requests = 11
    /\ is_monitoring

\* whether the text holds one of the configured keywords, letter case apart
mentions_block_keyword(text) ==
    \E i \in DOMAIN alert_config.block_keywords :
        Contains(lower(text), lower(alert_config.block_keywords[i]))

\* what C14 promises of the call recorded in last
blocking_alert_raised ==
    /\ failed_requests = last.pre_failed + 1
    /\ Len(last.emitted) = 1
    /\ last.emitted[1].type = "BLOQUEIO_DETECTADO"
    /\ last.emitted[1].details.error_message = The(last.failure_text)
    /\ current_delay_multiplier = max_delay_multiplier

\* C14 as stated: a failure recorded with an error text that holds a
\* configured block keyword, letter case apart, is counted, raises exactly
\* one BLOQUEIO_DETECTADO alert whatever the counters are, and leaves the
\* delay multiplier at max_delay_multiplier.
C14_Original ==
    last.op = "record_request" /\ ~last.success
      /\ truthy_text(last.failure_text)
      /\ mentions_block_keyword(The(last.failure_text))
      => blocking_alert_raised

\* the same for keywords configured in lower case, as the default ones are
C14_LowerCaseKeywords ==
    last.op = "record_request" /\ ~last.success
      /\ truthy_text(last.failure_text)
      /\ (\E i \in DOMAIN alert_config.block_keywords :
            /\ alert_config.block_keywords[i]
                  = lower(alert_config.block_keywords[i])
            /\ Contains(lower(The(last.failure_text)),
                        alert_config.block_keywords[i]))
      => blocking_alert_raised

\* a failure whose text holds the capitalised keyword: counted, no alert
C14_Witness ==
    /\ last.op = "record_request" /\ ~last.success
    /\ last.failure_text = Some(TxtForbidden)
    /\ alert_config = CapitalisedAlertConfig
    /\ failed_requests = last.pre_failed + 1
    /\ last.emitted = <<>>
    /\ current_delay_multiplier = initial_delay_multiplier

\* C15: a tick that emits a high-failure-rate alert leaves the multiplier at
\* min(1.5 * previous, max_delay_multiplier); a tick that emits none, whatever
\* slow-response or other alerts it emits, leaves it as it was; and the
\* multiplier always lies between its initial value 1.0 and
\* max_delay_multiplier.
C15_MultiplierRule ==
    /\ initial_delay_multiplier <= current_delay_multiplier
    /\ current_delay_multiplier <= max_delay_multiplier
    /\ last.op = "tick" =>
          IF "ALTA_TAXA_ERRO" \in alert_types(last.emitted)
          THEN 2 * current_delay_multiplier
                 = Min2(3 * last.pre_multiplier, 2 * max_delay_multiplier)
          ELSE current_delay_multiplier = last.pre_multiplier

\* the increase that meets the cap, in a tick that also reports slow responses
C15_Witness ==
    /\ last.op = "tick"
    /\ {"ALTA_TAXA_ERRO", "RESPOSTA_LENTA"} \subseteq alert_types(last.emitted)
    /\ last.pre_multiplier > initial_delay_multiplier
    /\ (last.pre_multiplier * 3) \div 2 > max_delay_multiplier
    /\ last.pre_multiplier < max_delay_multiplier
    /\ current_delay_multiplier = max_delay_multiplier

\* a tick that reports slow responses only
C15_SlowOnly ==
    /\ last.op = "tick"
    /\ alert_types(last.emitted) = {"RESPOSTA_LENTA"}
    /\ last.pre_multiplier > initial_delay_multiplier
    /\ current_delay_multiplier = last.pre_multiplier

\* the alert types a tick owes, in the order of the loop body, given the
\* status it found and the state it left
tick_alerts_due(old_status) ==
    (IF old_status # status THEN <<"MUDANCA_STATUS">> ELSE <<>>)
    \o (IF HighFailureRate THEN <<"ALTA_TAXA_ERRO">> ELSE <<>>)
    \o (IF /\ response_times # <<>>
           /\ Sum(LastN(response_times, RecentTimes))
                > alert_config.max_response_time
                    * Len(LastN(response_times, RecentTimes))
        THEN <<"RESPOSTA_LENTA">> ELSE <<>>)
    \o (IF /\ memory_usage # <<>>
           /\ memory_usage[Len(memory_usage)] > alert_config.max_memory_usage
        THEN <<"MEMORIA_ALTA">> ELSE <<>>)

\* C16: in record_request and in a tick of the loop, every alert emitted is
\* handed to every registered callback, once each and in registration order,
\* before the next alert is emitted, callbacks that raise and callbacks
\* registered after them included; and the operation is not cut short: a
\* tick still emits every alert it owes.
C16_CallbacksAllInvoked ==
    last.op \in {"record_request", "tick"} =>
        LET n == Len(alert_callbacks)
        IN /\ Len(last.invoked) = Len(last.emitted) * n
           /\ \A a \in DOMAIN last.emitted, i \in 1..n :
                 last.invoked[(a - 1) * n + i]
                   = [callback |-> alert_callbacks[i],
                      alert |-> last.emitted[a]]
           /\ last.op = "tick" =>
                 [a \in DOMAIN last.emitted |-> last.emitted[a].type]
                   = tick_alerts_due(last.old_status)

\* a tick that emits two alerts with a raising callback registered before
\* another one
C16_Witness ==
    /\ last.op = "tick" /\ Len(last.emitted) >= 2
    /\ Len(alert_callbacks) = 4
    /\ raises(alert_callbacks[3]) /\ ~raises(alert_callbacks[4])
    /\ last.invoked[4].callback = alert_callbacks[4]
    /\ last.invoked[8].alert = last.emitted[2]

\* the same in record_request
C16_RecordWitness ==
    /\ last.op = "record_request" /\ Len(last.emitted) = 1
    /\ Len(alert_callbacks) = 4
    /\ raises(alert_callbacks[3]) /\ ~raises(alert_callbacks[4])
    /\ Len(last.invoked) = 4


\* every worker is outside record_request: all the calls made have returned
workers_all_returned ==
    \A w \in Workers : mon_workers.workers[w].pc = "idle"

\* C17: once all the concurrent record_request calls of the workers have
\* returned, total_requests equals the number of calls made and
\* successful_requests + failed_requests = total_requests.  Two workers that
\* load the same total_requests before either stores lose an update.
C17_Original ==
    workers_all_returned =>
        /\ total_requests = mon_workers.returned
        /\ successful_requests + failed_requests = total_requests

\* two calls have returned and total_requests counts one of them
C17_Witness ==
    /\ workers_all_returned
    /\ mon_workers.returned = 2
    /\ total_requests = 1

\* the threads whose wrapped operation is in flight, invoked with the breaker
\* at HALF_OPEN
probes_in_flight ==
    {w \in Workers : /\ cb_workers.workers[w].pc = "in_func"
                     /\ cb_workers.workers[w].entered = "HALF_OPEN"}

\* C18: with several threads calling one breaker, a single wrapped operation
\* is invoked as the HALF_OPEN trial, and no other caller's operation is
\* invoked while it is in flight: at most one operation invoked at HALF_OPEN
\* is in flight at any time.  call tests only for OPEN, so a second caller
\* that finds HALF_OPEN goes straight to its operation.
C18_Original == Cardinality(probes_in_flight) <= 1

\* two operations invoked at HALF_OPEN are in flight together
C18_Witness ==
    /\ state = "HALF_OPEN"
    /\ probes_in_flight = Workers

\* every worker thread is outside the CacheManager
cache_calls_completed ==
    \A w \in Workers : cache_workers.workers[w].pc = "idle"

\* C19: calls of cache_category and get_cached_category from different
\* worker threads behave as if serialized: none raises, and once they have
\* completed the cache holds at most CacheLimit entries.  Two threads that
\* pick the same oldest key before either deletes it leave the second with a
\* KeyError and the cache over its limit.
C19_Original ==
    /\ cache_workers.raised = 0
    /\ cache_calls_completed => Len(cache_data) <= CacheLimit

\* the calls have completed, one raised and the cache is over its limit
C19_Witness ==
    /\ cache_calls_completed
    /\ cache_workers.raised = 1
    /\ Len(cache_data) > CacheLimit

\* the delay get_delay gives, with the jitter the last smart_wait drew, from
\* the counters as that smart_wait left them
delay_after_outcome ==
    get_delay_at(dm_consecutive_errors, success_count, error_count,
                 last.pre_delay, last.jitter)

\* C20: at the call sites of the delay manager the outcome of an operation is
\* recorded before the delay that follows it is computed, so the delay slept
\* by smart_wait is the one get_delay gives once the outcome is in the
\* counters (doubled after a failure).  smart_wait calls get_delay before
\* record_success, so the delay after a success follows the counters of the
\* operation before.
C20_Original ==
    last.op = "smart_wait" =>
        last.slept = (IF last.ok THEN 1 ELSE 2) * delay_after_outcome

\* a wait that succeeded after an error and slept the backoff of that error
C20_Witness ==
    /\ last.op = "smart_wait" /\ last.ok
    /\ last.pre_errors > 0
    /\ last.slept > delay_after_outcome

\* the failure path of smart_wait records the error before it computes the
\* delay it sleeps
C20_FailureRecordedFirst ==
    (last.op = "smart_wait" /\ ~last.ok) =>
        last.slept = 2 * delay_after_outcome

\* C21: once stop_monitoring has returned, the loop it stopped performs no
\* further tick: every tick is an iteration of the thread of the last
\* start_monitoring.  stop_monitoring gives up its join after 2 s while the
\* loop sleeps 10 s; a start_monitoring issued before the loop wakes sets the
\* flag again and the loop goes on.
C21_Original == last.op = "tick" => ~last.stale

\* a tick by a loop that outlived its stop_monitoring
C21_Witness ==
    /\ last.op = "tick" /\ last.stale
    /\ is_monitoring /\ monitor_loops = 2

\* C22: the cache key of a (name, URL) pair is the same in every run, so a
\* result stored by cache_category and flushed by save_cache is a hit of
\* get_cached_category for the same name and URL in the run that follows,
\* within the TTL.  The key holds hash(url), which is seeded per process.
C22_Original ==
    (last.op = "restart" /\ last.put # None
       /\ cache_valid(The(last.put).at)) =>
        get_cached_category(The(last.put).name, The(last.put).url)
            = Some(The(last.put).prompts)

\* the run after a put and a flush: the entry was loaded and the lookup by
\* the same name and URL misses it
C22_Witness ==
    /\ last.op = "restart" /\ last.put # None
    /\ cache_valid(The(last.put).at)
    /\ \E i \in DOMAIN cache_data :
          /\ cache_data[i].value.prompts = The(last.put).prompts
          /\ cache_data[i].key[1] = The(last.put).name
    /\ get_cached_category(The(last.put).name, The(last.put).url) = None

\* the entry is loaded by the next run whatever the seed: what is lost is
\* the key, not the data
C22_EntryLoaded ==
    (last.op = "restart" /\ last.put # None) =>
        \E i \in DOMAIN cache_data :
            /\ cache_data[i].value.prompts = The(last.put).prompts
            /\ cache_data[i].value.timestamp = The(last.put).at

\* C23: a crash between or during flushes loses at most the puts made since
\* the last completed flush: the run that follows loads every entry the last
\* completed save_cache persisted.  save_cache empties the file in place
\* before writing it, so a crash inside it leaves a file json.load rejects.
C23_Original ==
    last.op \in {"restart", "crash_in_save"} =>
        cache_data = cache_file.entries

\* after a crash inside save_cache the run starts with an empty cache although
\* a completed flush had persisted entries
C23_Witness ==
    /\ last.op = "crash_in_save"
    /\ cache_file.entries # <<>>
    /\ cache_data = <<>>

\* a crash between flushes loses nothing that was flushed
C23_BetweenFlushes ==
    (last.op = "restart" /\ cache_file.state # "partial") =>
        cache_data = cache_file.entries

\* the categories of the last extract_all_categories that had an entry in
\* the cache, not expired, when it was called
had_valid_entry ==
    {i \in DOMAIN last.categories :
        LET k == cache_key(last.categories[i].nome, last.categories[i].link)
        IN /\ dict_has(last.pre, k)
           /\ last.at - dict_get(last.pre, k).timestamp < CacheTTL}

\* the payload the cache held for category i of the last call
cached_payload(i) ==
    dict_get(last.pre, cache_key(last.categories[i].nome,
                                 last.categories[i].link)).prompts

\* C24: extract_all_categories never passes a category with a non-expired
\* cache entry to the extraction function and returns the cached payload for
\* it; the categories without a valid entry are the ones extracted.  The
\* lookup is tested with `if cached:`, so a valid entry of zero prompts counts
\* as a miss.
C24_Original ==
    last.op = "extract_all_categories" =>
        /\ \A i \in had_valid_entry :
              /\ i \notin last.extracted
              /\ last.results[last.categories[i].nome] = cached_payload(i)
        /\ \A i \in DOMAIN last.categories \ had_valid_entry :
              i \in last.extracted

\* a category whose valid entry holds no prompts was extracted again and the
\* result returned for it is not what the cache held
C24_Witness ==
    /\ last.op = "extract_all_categories"
    /\ \E i \in had_valid_entry :
          /\ cached_payload(i) = <<>>
          /\ i \in last.extracted
          /\ last.results[last.categories[i].nome] # <<>>

\* a valid entry that holds prompts is served from the cache
C24_NonEmptyHit ==
    last.op = "extract_all_categories" =>
        /\ \A i \in had_valid_entry :
              cached_payload(i) # <<>> =>
                  /\ i \notin last.extracted
                  /\ last.results[last.categories[i].nome] = cached_payload(i)
        /\ \A i \in DOMAIN last.categories \ had_valid_entry :
              i \in last.extracted

\* get_delay was just called on the default configuration (2.0, 8.0, 5.0)
\* after three consecutive recorded failures
after_three_failures ==
    /\ last.op = "get_delay"
    /\ config = DefaultScrapingConfig
    /\ dm_consecutive_errors = 3

\* C25: with min_delay 2.0, max_delay 8.0, error_backoff_base 5.0 and three
\* consecutive failures, get_delay clamps the backoff 5.0 * 8 = 40.0 to
\* max_delay before the jitter j and clamps again, returning
\* clamp(8.0 * j, 2.0, 8.0).  get_delay applies the jitter to 40.0 and clamps
\* once, so it returns 8.0 for every j.
C25_Original ==
    after_three_failures =>
        last.result
            = clamp_delay((Min2(config.error_backoff_base * Min2(2 ^ 3, 8),
                                config.max_delay) * last.jitter) \div 100)

\* the smallest jitter, for which the claim gives 4.0, returned 8.0
C25_Witness ==
    /\ after_three_failures
    /\ last.jitter = 50
    /\ last.result = config.max_delay

\* what get_delay returns there: max_delay, whatever the jitter
C25_AlwaysMaxDelay ==
    after_three_failures => last.result = config.max_delay

\* the status-change alerts among the alerts the last call emitted
status_change_alerts ==
    {i \in DOMAIN last.emitted : last.emitted[i].type = "MUDANCA_STATUS"}

C29_StateInvariant ==
    /\ state \in {"CLOSED", "OPEN"}
    /\ state = "OPEN" =>
          /\ failure_count >= failure_threshold
          /\ last_failure_time # None
    /\ state = "CLOSED" => failure_count < failure_threshold

\* a probe has failed and the breaker is OPEN again, past its threshold
C29_Witness ==
    /\ last.op = "call" /\ last.outcome = "raised"
    /\ last.pre.state = "OPEN"
    /\ state = "OPEN"
    /\ failure_count > failure_threshold
    /\ last_failure_time = Some(last.ended)

\* C28: the delay multiplier of the AdaptiveController never decreases: no
\* alert, recorded success or recovery of the status lowers it, and once at
\* max_delay_multiplier it stays there.
C28_MultiplierNeverDecreases ==
    [][/\ current_delay_multiplier' >= current_delay_multiplier
       /\ current_delay_multiplier = max_delay_multiplier
             => current_delay_multiplier' = max_delay_multiplier]_vars

\* the status has recovered to HEALTHY in a tick and the multiplier is still
\* above 1.0
C28_Witness ==
    /\ last.op = "tick"
    /\ last.old_status # HEALTHY /\ status = HEALTHY
    /\ last.pre_multiplier > initial_delay_multiplier
    /\ current_delay_multiplier = last.pre_multiplier

\* C30: at most one monitor loop is running at any time, for any sequence of
\* start_monitoring and stop_monitoring calls.  A loop that has not yet seen
\* the flag cleared by stop_monitoring is still alive when the next
\* start_monitoring creates its thread.
C30_Original == is_monitoring => monitor_loops <= 1

\* a start_monitoring that created a thread next to a live one
C30_Witness ==
    /\ last.op = "start_monitoring" /\ ~last.was_monitoring
    /\ is_monitoring /\ monitor_loops = 2

\* the half of C30 that holds: start_monitoring while monitoring is active
\* starts no thread
C30_StartWhileActive ==
    [][is_monitoring /\ last'.op = "start_monitoring"
          => monitor_loops' = monitor_loops /\ is_monitoring']_vars

====
